---------------------------- MODULE Spec2Model ----------------------------
(***************************************************************************)
(* A model of the Gremlin risk-analysis pipeline (abhi10/gremlin):         *)
(*   gremlin/core/inference.py, patterns.py, prompts.py, stages.py,        *)
(*   gremlin/api.py (class Gremlin) and the stage commands of              *)
(*   gremlin/cli.py.                                                       *)
(*                                                                         *)
(* Conventions                                                             *)
(*   - a Python str that the code inspects character by character (scope,  *)
(*     keyword) is a sequence of one-character strings;                    *)
(*   - an engine response is a sequence of lines, each line a record that  *)
(*     tells which of the shapes the parser distinguishes the line has;    *)
(*   - a Python dict whose order matters is a sequence of entries;         *)
(*   - an optional value (x | None) is a record [some, v];                 *)
(*   - "no artifact yet" is the empty sequence, an artifact x is <<x>>;    *)
(*   - an exception is a record [type, tags]: tags lists the stage         *)
(*     identifiers "[<stage> stage]" its message carries, outermost first. *)
(***************************************************************************)
EXTENDS Integers, Sequences, FiniteSets, TLC

(***************************************************************************)
(* Bounds of the model.                                                    *)
(***************************************************************************)
\* number of analyze() runs started on the one Gremlin instance
MaxRuns == 1
\* number of artifacts built in the object-level model
MaxArts == 3
\* number of in-place changes the host makes in the object-level model
MaxAppends == 2

(***************************************************************************)
(* Program constants.                                                      *)
(***************************************************************************)
\* stages.py:22  _SCHEMA_VERSION = "1"
SCHEMA_VERSION == "1"
\* prompts.py:21-27  build_prompt declares five parameters
build_prompt_params == 5
\* api.py:397-404  _run_rollout passes six positional arguments
rollout_prompt_args == 6
\* api.py:525  for line in lines[1:5]
TITLE_SCAN_END == 5

(***************************************************************************)
(* Optional values.                                                        *)
(***************************************************************************)
None == [some |-> FALSE, v |-> <<>>]
Some(x) == [some |-> TRUE, v |-> x]

(***************************************************************************)
(* Characters and str.lower().                                             *)
(***************************************************************************)
LowerMap == ("P" :> "p") @@ ("A" :> "a") @@ ("Y" :> "y") @@ ("U" :> "u")
            @@ ("T" :> "t") @@ ("H" :> "h") @@ ("X" :> "x")

LowerChar(c) == IF c \in DOMAIN LowerMap THEN LowerMap[c] ELSE c

\* str.lower()
lower(s) == [k \in 1..Len(s) |-> LowerChar(s[k])]

\* Python's  kw in s  for two str
IsSubstring(kw, s) ==
    \E k \in 0..(Len(s) - Len(kw)) :
        \A n \in 1..Len(kw) : s[k + n] = kw[n]

(***************************************************************************)
(* The inputs of the model.                                                *)
(***************************************************************************)
Scopes == { <<"P", "a", "y">>, <<"p", "a", "y", " ", "a", "u", "t", "h">>, <<"x">> }
Contexts == { None, Some("Using Stripe") }
Depths == { "quick", "deep" }
Thresholds == { 80, 70 }

\* The pattern catalog, as load_all_patterns leaves it: universal is a list
\* of categories, domain_specific a dict  name -> {keywords, patterns}, kept
\* in insertion order.  keywords is optional: a YAML "keywords:" with no
\* value loads as None.
Catalog ==
    [ universal |-> << [category |-> "network", patterns |-> <<"u1", "u2">>] >>,
      domain_specific |->
        << [name |-> "payments", keywords |-> Some(<< <<"p", "a", "y">> >>),
            patterns |-> <<"p1", "p2">>],
           [name |-> "auth",
            keywords |-> Some(<< <<"a", "u", "t", "h">>, <<"l", "o", "g">> >>),
            patterns |-> <<"a1">>] >> ]

\* A malformed keyword table: the keywords of "auth" are None.
CatalogNoKeywords ==
    [ universal |-> Catalog.universal,
      domain_specific |->
        << Catalog.domain_specific[1],
           [name |-> "auth", keywords |-> None, patterns |-> <<"a1">>] >> ]

Catalogs == { Catalog, CatalogNoKeywords }

(***************************************************************************)
(* gremlin/core/patterns.py, gremlin/core/inference.py                     *)
(***************************************************************************)
\* patterns.py:125-138
get_domain_keywords(patterns) ==
    [k \in 1..Len(patterns.domain_specific) |->
        [name |-> patterns.domain_specific[k].name,
         keywords |-> patterns.domain_specific[k].keywords]]

\* any(kw in scope_lower for kw in keywords) raises TypeError when keywords
\* is None
KeywordTableOk(dk) == \A k \in 1..Len(dk) : dk[k].keywords.some

RECURSIVE FilterMatched(_, _, _)
FilterMatched(dk, scope_lower, k) ==
    IF k > Len(dk) THEN <<>>
    ELSE LET rest == FilterMatched(dk, scope_lower, k + 1)
             kws == dk[k].keywords.v
             hit == \E n \in 1..Len(kws) : IsSubstring(kws[n], scope_lower)
         IN IF hit THEN <<dk[k].name>> \o rest ELSE rest

\* inference.py:4-21 (called with a well-formed keyword table)
infer_domains(scope, domain_keywords) ==
    FilterMatched(domain_keywords, lower(scope), 1)

\* the entry of a dict kept as a sequence of [name, ...] records
HasKey(dict, name) == \E k \in 1..Len(dict) : dict[k].name = name
Lookup(dict, name) == dict[CHOOSE k \in 1..Len(dict) : dict[k].name = name]

\* the set of the elements of a list
Elems(seq) == { seq[k] : k \in 1..Len(seq) }

\* a variant that selects the universal entries only when a domain matched
select_patterns_when_matched(scope, all_patterns, matched_domains) ==
    [ universal |-> IF matched_domains = <<>> THEN <<>> ELSE all_patterns.universal,
      domain |-> [ d \in { m \in Elems(matched_domains) :
                               HasKey(all_patterns.domain_specific, m) } |->
                     Lookup(all_patterns.domain_specific, d).patterns ] ]

\* patterns.py:141-162.  The result has the keys "universal" and "domain";
\* "domain" is a dict  name -> patterns  (a function: two Python dicts are
\* equal whatever their order).
select_patterns(scope, all_patterns, matched_domains) ==
    [ universal |-> all_patterns.universal,
      domain |-> [ d \in { m \in Elems(matched_domains) :
                               HasKey(all_patterns.domain_specific, m) } |->
                     Lookup(all_patterns.domain_specific, d).patterns ] ]

(***************************************************************************)
(* Engine responses.                                                       *)
(*                                                                         *)
(* A response text is a sequence of lines.  A line is a record             *)
(*   k     the shape of the line:                                          *)
(*         "h"       a markdown heading: lvl '#' signs, a blank, then the  *)
(*                   word and, when conf >= 0, " (<conf>%)"                *)
(*         "bold"    **txt**                                               *)
(*         "quote"   > txt   (txt "": nothing but blanks after ">")        *)
(*         "whatif"  txt, a plain line that starts with "What if"          *)
(*         "impact"  - **Impact:** txt   (txt "": blanks only after it)    *)
(*         "domain"  - **Domain:** doms[1], doms[2], ...                   *)
(*         "rule"    ---                                                   *)
(*         "text"    txt, any other non-empty line                        *)
(*         "blank"   an empty line                                         *)
(* The text of a response whose .text is None is NoneText.                 *)
(***************************************************************************)
Line(k, lvl, word, conf, txt, doms) ==
    [k |-> k, lvl |-> lvl, word |-> word, conf |-> conf, txt |-> txt, doms |-> doms]

H(lvl, word, conf) == Line("h", lvl, word, conf, "", <<>>)
Bold(t) == Line("bold", 0, "", -1, t, <<>>)
Quote(t) == Line("quote", 0, "", -1, t, <<>>)
WhatIf(t) == Line("whatif", 0, "", -1, t, <<>>)
Impact(t) == Line("impact", 0, "", -1, t, <<>>)
Domain(ds) == Line("domain", 0, "", -1, "", ds)
Rule == Line("rule", 0, "", -1, "", <<>>)
Plain(t) == Line("text", 0, "", -1, t, <<>>)
Blank == Line("blank", 0, "", -1, "", <<>>)

Text(lines) == [isstr |-> TRUE, lines |-> lines]
NoneText == [isstr |-> FALSE, lines |-> <<>>]

\* str.upper() on the heading words of the model
UpperWordMap == ("critical" :> "CRITICAL") @@ ("high" :> "HIGH")
                @@ ("Medium" :> "MEDIUM") @@ ("low" :> "LOW") @@ ("note" :> "NOTE")

upper(w) == IF w \in DOMAIN UpperWordMap THEN UpperWordMap[w] ELSE w

\* The two-section sample of tests/test_api.py:170-190, the second section
\* without a Domain bullet.
RespTwo ==
    Text(<< H(3, "CRITICAL", 95), Bold("Payment Race Condition"),
            Quote("What if payment succeeds but order creation fails?"),
            Impact("Customer charged"), Domain(<<"payments">>),
            H(2, "high", 85), Quote("What if the session expires?"),
            Impact("Lost cart") >>)

\* Plain text: no heading at all.
RespPlain == Text(<< Plain("No risks found.") >>)

\* A validator's answer: one accepted risk, a rule, the summary block.
RespValidated ==
    Text(<< H(3, "CRITICAL", 95), Quote("What if payment succeeds but order creation fails?"),
            Impact("Customer charged"), Rule, Plain("Rejected 1 of 2 risks") >>)

\* A section whose heading word is no severity level: "### note (50%)".
RespNote ==
    Text(<< H(3, "note", 50), Quote("What if the cache is cold?"),
            Impact("Slow first request") >>)

\* A section whose heading gives a number above 100: "### HIGH (150%)".
RespOver ==
    Text(<< H(3, "HIGH", 150), Quote("What if the session expires?"),
            Impact("Lost cart") >>)

Responses == { RespTwo, RespPlain, RespValidated, RespNote, RespOver }

\* Sections with a valid heading and parts missing: no Impact bullet; no
\* scenario line; a blockquote with nothing after ">"; an Impact bullet with
\* blanks only after the label; a heading without "(n%)"; and one complete
\* section.
RespPartial ==
    Text(<< H(3, "Medium", 70), Quote("What if the session expires?"),
            H(2, "low", 60), Impact("Lost cart"),
            H(3, "HIGH", 90), Quote(""), WhatIf("What if the disk is full?"),
            Impact("Lost cart"),
            H(2, "CRITICAL", 95), Impact(""), WhatIf("What if the disk is full?"),
            H(3, "Summary", -1), Quote("What if the cache is cold?"),
            Impact("Slow first request"),
            H(2, "HIGH", 85), Quote("What if the session expires?"),
            Impact("Lost cart") >>)

\* Headings of level 1 and 4 only, each over a complete body.
RespDeep ==
    Text(<< H(1, "HIGH", 90), Quote("What if the session expires?"), Impact("Lost cart"),
            H(4, "CRITICAL", 95), Quote("What if the cache is cold?"),
            Impact("Slow first request") >>)

\* Three complete sections of mixed depth, the first with a title and a
\* scenario given as plain text.
RespMixed ==
    Text(<< Plain("Here are the risks."),
            H(2, "CRITICAL", 95), Blank, Bold("Payment Race Condition"),
            WhatIf("What if the disk is full?"), Impact("Customer charged"),
            H(3, "low", 60), Quote("What if the cache is cold?"),
            Impact("Slow first request"), Domain(<<"auth", "payments">>),
            H(2, "Medium", 70), Quote("What if the session expires?"),
            Impact("Lost cart") >>)

\* One section in which a line starting with "What if" comes before a
\* blockquote line.
RespWhatIfFirst ==
    Text(<< H(3, "HIGH", 85), WhatIf("What if the disk is full?"),
            Quote("What if the cache is cold?"), Impact("Slow first request") >>)

\* the texts given to the parser on its own
ParserTexts ==
    Responses \cup { RespPartial, RespDeep, RespMixed, RespWhatIfFirst, Text(<<>>) }

(***************************************************************************)
(* gremlin/api.py: the response parser                                     *)
(***************************************************************************)
\* api.py:51-56
Risk(severity, confidence, scenario, impact, domains, title) ==
    [severity |-> severity, confidence |-> confidence, scenario |-> scenario,
     impact |-> impact, domains |-> domains, title |-> title]

\* a split at a heading of any level
IsSectionStart_any_level(line) == line.k = "h"

\* a split at the headings of level 3 only
IsSectionStart_level3_only(line) == line.k = "h" /\ line.lvl = 3

\* api.py:501  re.split(r'\n#{2,3}\s+', '\n' + text): a section starts at a
\* heading of level 2 or 3
IsSectionStart(line) == line.k = "h" /\ line.lvl \in {2, 3}

\* the lines of the section that starts at line s: up to the next start
SectionEnd(lines, s) ==
    IF \E e \in (s + 1)..Len(lines) : IsSectionStart(lines[e])
    THEN (CHOOSE e \in (s + 1)..Len(lines) :
              /\ IsSectionStart(lines[e])
              /\ \A m \in (s + 1)..(e - 1) : ~IsSectionStart(lines[m])) - 1
    ELSE Len(lines)

\* api.py:26-29, 513  _HEADER_PATTERN.match(lines[0])
HeaderMatches(line) == line.word /= "" /\ line.conf >= 0

\* api.py:527-533: the text a line gives as title, if any: a full bold line,
\* or the first bold span of the line
BoldSpan(line) ==
    CASE line.k = "bold" -> Some(line.txt)
      [] line.k = "impact" -> Some("Impact:")
      [] line.k = "domain" -> Some("Domain:")
      [] OTHER -> None

\* the first index in lo..hi, within the list, whose flag is set, or 0
FirstIndex(flags, lo, hi) ==
    IF \E n \in lo..hi : n <= Len(flags) /\ flags[n]
    THEN CHOOSE n \in lo..hi :
             /\ n <= Len(flags) /\ flags[n]
             /\ \A m \in lo..(n - 1) : ~flags[m]
    ELSE 0

\* api.py:523-533
ExtractTitle(sec) ==
    LET n == FirstIndex([k \in 1..Len(sec) |-> BoldSpan(sec[k]).some], 2, TITLE_SCAN_END)
    IN IF n = 0 THEN "" ELSE BoldSpan(sec[n]).v

\* api.py:535-546: the first line that is a blockquote or starts with
\* "what if", whichever comes first
ExtractScenario(sec) ==
    LET n == FirstIndex([k \in 1..Len(sec) |-> sec[k].k \in {"quote", "whatif"}],
                        1, Len(sec))
    IN IF n = 0 THEN "" ELSE sec[n].txt

\* api.py:548-554
ExtractImpact(sec) ==
    LET n == FirstIndex([k \in 1..Len(sec) |-> sec[k].k = "impact"], 1, Len(sec))
    IN IF n = 0 THEN "" ELSE sec[n].txt

\* api.py:556-566
ExtractDomains(sec, domains) ==
    LET n == FirstIndex([k \in 1..Len(sec) |-> sec[k].k = "domain"], 1, Len(sec))
        risk_domains == IF n = 0 THEN <<>> ELSE sec[n].doms
    IN IF risk_domains = <<>> THEN domains ELSE risk_domains

\* a variant that emits a Risk for every section with a valid heading
ParseSection_keeping_partial(sec, domains) ==
    IF ~HeaderMatches(sec[1]) THEN <<>>
    ELSE << Risk(upper(sec[1].word), sec[1].conf, ExtractScenario(sec), ExtractImpact(sec),
                 ExtractDomains(sec, domains), ExtractTitle(sec)) >>

\* api.py:503-579: the risks of one section (none or one)
ParseSection(sec, domains) ==
    IF ~HeaderMatches(sec[1]) THEN <<>>
    ELSE LET scenario == ExtractScenario(sec)
             impact == ExtractImpact(sec)
         IN IF scenario /= "" /\ impact /= ""
            THEN << Risk(upper(sec[1].word), sec[1].conf, scenario, impact,
                         ExtractDomains(sec, domains), ExtractTitle(sec)) >>
            ELSE <<>>

RECURSIVE ParseFrom(_, _, _)
ParseFrom(lines, domains, s) ==
    IF s > Len(lines) THEN <<>>
    ELSE IF IsSectionStart(lines[s])
         THEN ParseSection(SubSeq(lines, s, SectionEnd(lines, s)), domains)
              \o ParseFrom(lines, domains, s + 1)
         ELSE ParseFrom(lines, domains, s + 1)

\* api.py:479-581.  '\n' + response_text raises TypeError for a text that is
\* no str.  The result: [raised, risks].
parse_risks(response_text, domains) ==
    IF ~response_text.isstr
    THEN [raised |-> TRUE, risks |-> <<>>]
    ELSE [raised |-> FALSE, risks |-> ParseFrom(response_text.lines, domains, 1)]

(***************************************************************************)
(* Python values and JSON.                                                 *)
(*                                                                         *)
(* to_dict builds a Python value: a record [t, v] with t the Python type.  *)
(* json.dumps maps it to a JSON value [j, v]: None -> null, a list and a   *)
(* tuple both -> array, a dict -> object.  json.loads maps back: an array  *)
(* always to a list.  A run-directory file holds a JSON value.             *)
(***************************************************************************)
PNone == [t |-> "none", v |-> <<>>]
PStr(s) == [t |-> "str", v |-> s]
PInt(n) == [t |-> "int", v |-> n]
PBool(b) == [t |-> "bool", v |-> b]
PList(seq) == [t |-> "list", v |-> seq]
PDict(f) == [t |-> "dict", v |-> f]

PStrList(seq) == PList([k \in 1..Len(seq) |-> PStr(seq[k])])
POptStr(o) == IF o.some THEN PStr(o.v) ELSE PNone

RECURSIVE json_dumps(_)
json_dumps(p) ==
    CASE p.t = "none" -> [j |-> "null", v |-> <<>>]
      [] p.t = "str" -> [j |-> "string", v |-> p.v]
      [] p.t = "int" -> [j |-> "number", v |-> p.v]
      [] p.t = "bool" -> [j |-> IF p.v THEN "true" ELSE "false", v |-> <<>>]
      [] p.t \in {"list", "tuple"} ->
            [j |-> "array", v |-> [k \in DOMAIN p.v |-> json_dumps(p.v[k])]]
      [] p.t = "dict" ->
            [j |-> "object", v |-> [k \in DOMAIN p.v |-> json_dumps(p.v[k])]]

RECURSIVE json_loads(_)
json_loads(x) ==
    CASE x.j = "null" -> PNone
      [] x.j = "string" -> PStr(x.v)
      [] x.j = "number" -> PInt(x.v)
      [] x.j = "true" -> PBool(TRUE)
      [] x.j = "false" -> PBool(FALSE)
      [] x.j = "array" -> PList([k \in DOMAIN x.v |-> json_loads(x.v[k])])
      [] x.j = "object" -> PDict([k \in DOMAIN x.v |-> json_loads(x.v[k])])

\* d.get(key, default) and d[key] on a Python dict
Get(d, key, default) == IF key \in DOMAIN d.v THEN d.v[key] ELSE default

\* the model's value of a loaded Python value
UnStrList(p) == [k \in 1..Len(p.v) |-> p.v[k].v]
UnOptStr(p) == IF p.t = "none" THEN None ELSE Some(p.v)
UnText(p) == IF p.t = "none" THEN NoneText ELSE Text(p.v)
PText(text) == IF text.isstr THEN PStr(text.lines) ELSE PNone

(***************************************************************************)
(* gremlin/core/stages.py: the four stage artifacts                        *)
(***************************************************************************)
\* stages.py:25-38
UnderstandingResult(scope, matched_domains, depth, threshold, context) ==
    [scope |-> scope, matched_domains |-> matched_domains, depth |-> depth,
     threshold |-> threshold, context |-> context, version |-> SCHEMA_VERSION]

\* stages.py:62-73
IdeationResult(understanding, selected_patterns, pattern_count) ==
    [understanding |-> understanding, selected_patterns |-> selected_patterns,
     pattern_count |-> pattern_count, version |-> SCHEMA_VERSION]

\* stages.py:93-103
RolloutResult(ideation, raw_response) ==
    [ideation |-> ideation, raw_response |-> raw_response, version |-> SCHEMA_VERSION]

\* stages.py:121-135
JudgmentResult(rollout, risks, validation_summary, validated) ==
    [rollout |-> rollout, risks |-> risks, validation_summary |-> validation_summary,
     validated |-> validated, version |-> SCHEMA_VERSION]

\* stages.py:40-48
U_to_dict(u) ==
    PDict([version |-> PStr(u.version), scope |-> PStr(u.scope),
           matched_domains |-> PStrList(u.matched_domains), depth |-> PStr(u.depth),
           threshold |-> PInt(u.threshold), context |-> POptStr(u.context)])

\* a reader that forgets the context
U_from_dict_no_context(d) ==
    [scope |-> d.v["scope"].v,
     matched_domains |-> UnStrList(Get(d, "matched_domains", PList(<<>>))),
     depth |-> Get(d, "depth", PStr("quick")).v,
     threshold |-> Get(d, "threshold", PInt(80)).v,
     context |-> None,
     version |-> Get(d, "version", PStr(SCHEMA_VERSION)).v]

\* stages.py:50-59
U_from_dict(d) ==
    [scope |-> d.v["scope"].v,
     matched_domains |-> UnStrList(Get(d, "matched_domains", PList(<<>>))),
     depth |-> Get(d, "depth", PStr("quick")).v,
     threshold |-> Get(d, "threshold", PInt(80)).v,
     context |-> UnOptStr(Get(d, "context", PNone)),
     version |-> Get(d, "version", PStr(SCHEMA_VERSION)).v]

\* the Python value of selected_patterns: a dict of lists and dicts
PCategory(c) == PDict([category |-> PStr(c.category), patterns |-> PStrList(c.patterns)])
PSelected(sel) ==
    PDict([key \in DOMAIN sel |->
              IF key = "universal"
              THEN PList([k \in 1..Len(sel[key]) |-> PCategory(sel[key][k])])
              ELSE PDict([d \in DOMAIN sel[key] |-> PStrList(sel[key][d])])])

UnCategory(p) == [category |-> p.v["category"].v, patterns |-> UnStrList(p.v["patterns"])]
UnSelected(p) ==
    [key \in DOMAIN p.v |->
        IF p.v[key].t = "list"
        THEN [k \in 1..Len(p.v[key].v) |-> UnCategory(p.v[key].v[k])]
        ELSE [d \in DOMAIN p.v[key].v |-> UnStrList(p.v[key].v[d])]]

\* stages.py:75-81
I_to_dict(i) ==
    PDict([version |-> PStr(i.version), understanding |-> U_to_dict(i.understanding),
           selected_patterns |-> PSelected(i.selected_patterns),
           pattern_count |-> PInt(i.pattern_count)])

\* stages.py:83-90
I_from_dict(d) ==
    [understanding |-> U_from_dict(d.v["understanding"]),
     selected_patterns |-> UnSelected(Get(d, "selected_patterns", PDict(<<>>))),
     pattern_count |-> Get(d, "pattern_count", PInt(0)).v,
     version |-> Get(d, "version", PStr(SCHEMA_VERSION)).v]

\* stages.py:105-110
R_to_dict(r) ==
    PDict([version |-> PStr(r.version), ideation |-> I_to_dict(r.ideation),
           raw_response |-> PText(r.raw_response)])

\* stages.py:112-118
R_from_dict(d) ==
    [ideation |-> I_from_dict(d.v["ideation"]),
     raw_response |-> UnText(Get(d, "raw_response", PStr(<<>>))),
     version |-> Get(d, "version", PStr(SCHEMA_VERSION)).v]

\* api.py:58-67  Risk.to_dict
Risk_to_dict(risk) ==
    PDict([severity |-> PStr(risk.severity), confidence |-> PInt(risk.confidence),
           scenario |-> PStr(risk.scenario), impact |-> PStr(risk.impact),
           domains |-> PStrList(risk.domains), title |-> PStr(risk.title)])

\* a risk dict read back
UnRisk(p) ==
    [severity |-> p.v["severity"].v, confidence |-> p.v["confidence"].v,
     scenario |-> p.v["scenario"].v, impact |-> p.v["impact"].v,
     domains |-> UnStrList(p.v["domains"]), title |-> p.v["title"].v]

\* stages.py:137-144
J_to_dict(jr) ==
    PDict([version |-> PStr(jr.version), rollout |-> R_to_dict(jr.rollout),
           risks |-> PList([k \in 1..Len(jr.risks) |-> Risk_to_dict(jr.risks[k])]),
           validation_summary |-> POptStr(jr.validation_summary),
           validated |-> PBool(jr.validated)])

\* stages.py:146-154
J_from_dict(d) ==
    [rollout |-> R_from_dict(d.v["rollout"]),
     risks |-> LET rs == Get(d, "risks", PList(<<>>)).v
               IN [k \in 1..Len(rs) |-> UnRisk(rs[k])],
     validation_summary |-> UnOptStr(Get(d, "validation_summary", PNone)),
     validated |-> Get(d, "validated", PBool(FALSE)).v,
     version |-> Get(d, "version", PStr(SCHEMA_VERSION)).v]

(***************************************************************************)
(* The reasoning engine and its client.                                    *)
(*                                                                         *)
(* What the engine does on a call is an outcome: it returns a response     *)
(* with the given text, or complete() raises an exception of the given     *)
(* type.  A script lists the outcomes of the successive calls of one run.  *)
(***************************************************************************)
Returns(text) == [kind |-> "text", text |-> text, exc |-> ""]
Raises(type) == [kind |-> "raise", text |-> NoneText, exc |-> type]

\* outcomes of a first-pass call and of a validation call
FirstOutcomes == { Returns(RespTwo), Returns(RespPlain), Raises("LLMProviderError") }
SecondOutcomes == { Returns(RespValidated), Returns(NoneText),
                    Raises("LLMProviderError"), Raises("RuntimeError") }

Scripts == { <<Returns(RespTwo), Returns(RespValidated)>>,
             <<Returns(RespTwo), Raises("LLMProviderError")>>,
             <<Returns(RespPlain), Returns(NoneText)>>,
             <<Raises("LLMProviderError"), Returns(RespValidated)>> }

\* An exception: its type and the stage identifiers of its message.
Exc(type, tags) == [type |-> type, tags |-> tags]

\* raise RuntimeError(f"[<stage> stage] {e}") from e
Wrap(stage, e) == Exc("RuntimeError", <<stage>> \o e.tags)

\* a factory that builds a client whatever the configuration
get_provider_unchecked(config) == [ok |-> TRUE, client |-> "client", exc |-> <<>>]

\* llm/factory.py:71-85 and providers/anthropic.py:29-35, 46-66: the client is
\* built when the configuration is valid; otherwise ValueError is raised.
get_provider(config) ==
    IF config = "ok"
    THEN [ok |-> TRUE, client |-> "client", exc |-> <<>>]
    ELSE [ok |-> FALSE, client |-> "None", exc |-> <<Exc("ValueError", <<>>)>>]

\* prompts.py:21-62: the two prompts, from five arguments (no context)
build_prompt(system_prompt, selected_patterns, scope, depth, threshold) ==
    [system |-> [base |-> system_prompt, patterns |-> selected_patterns],
     user |-> [scope |-> scope, depth |-> depth, threshold |-> threshold]]

(***************************************************************************)
(* gremlin/api.py: the stage methods of class Gremlin.                     *)
(*                                                                         *)
(* g is the Gremlin instance: [catalog, threshold, config, provider].      *)
(* A stage method gives [ok, art, exc, provider, calls]: the artifact it   *)
(* returns or the exception that propagates out of it, the value it leaves *)
(* in g._provider, and the engine calls it made.                           *)
(***************************************************************************)
Returned(art, provider, calls) ==
    [ok |-> TRUE, art |-> <<art>>, exc |-> <<>>, provider |-> provider, calls |-> calls]
Raised(exc, provider, calls) ==
    [ok |-> FALSE, art |-> <<>>, exc |-> <<exc>>, provider |-> provider, calls |-> calls]

\* an engine call: complete(system, user) and what the engine did
Call(stage, prompt, outcome) == [stage |-> stage, prompt |-> prompt, outcome |-> outcome]

\* api.py:272  self._system_prompt, the text of prompts/system.md
SystemPrompt == "system.md"

\* gremlin/core/validator.py: the validation prompts, built from the scope and
\* the first-pass response
VALIDATION_SYSTEM_PROMPT == "validation system prompt"
build_validation_prompt(scope, risks_text) ==
    [system |-> VALIDATION_SYSTEM_PROMPT, user |-> [scope |-> scope, risks |-> risks_text]]

\* api.py:375-376  except Exception as e: raise RuntimeError("[understanding stage] ...")
understanding_handler(e) == Wrap("understanding", e)

\* api.py:362-376
run_understanding(g, scope, context, depth) ==
    LET dk == get_domain_keywords(g.catalog)
    IN IF ~KeywordTableOk(dk)
       THEN Raised(understanding_handler(Exc("TypeError", <<>>)), g.provider, <<>>)
       ELSE Returned(UnderstandingResult(scope, infer_domains(scope, dk), depth,
                                         g.threshold, context),
                     g.provider, <<>>)

\* api.py:382-384: len(universal) + the lengths of the values of
\* selected.get("domain_specific", {})
RECURSIVE SumLens(_, _)
SumLens(f, keys) ==
    IF keys = {} THEN 0
    ELSE LET k == CHOOSE k \in keys : TRUE
         IN Len(f[k]) + SumLens(f, keys \ {k})

count_patterns(selected) ==
    Len(selected.universal)
    + (IF "domain_specific" \in DOMAIN selected
       THEN SumLens(selected.domain_specific, DOMAIN selected.domain_specific)
       ELSE 0)

\* api.py:378-391
run_ideation(g, u) ==
    LET selected == select_patterns(u.scope, g.catalog, u.matched_domains)
    IN Returned(IdeationResult(u, selected, count_patterns(selected)), g.provider, <<>>)

\* a handler that lets every exception pass as it is
rollout_handler_untagged(e) == e

\* api.py:412-415  except RuntimeError: raise / except Exception: wrap
rollout_handler(e) == IF e.type = "RuntimeError" THEN e ELSE Wrap("rollout", e)

\* api.py:393-415.  The call of build_prompt raises TypeError unless the
\* number of arguments is the number of parameters.
run_rollout(g, i, outcome) ==
    IF rollout_prompt_args /= build_prompt_params
    THEN Raised(rollout_handler(Exc("TypeError", <<>>)), g.provider, <<>>)
    ELSE LET made == IF g.provider = "None" THEN get_provider(g.config)
                     ELSE [ok |-> TRUE, client |-> g.provider, exc |-> <<>>]
         IN IF ~made.ok
            THEN Raised(rollout_handler(made.exc[1]), g.provider, <<>>)
            ELSE LET u == i.understanding
                     prompt == build_prompt(SystemPrompt, i.selected_patterns, u.scope,
                                            u.depth, u.threshold)
                     calls == << Call("rollout", prompt, outcome) >>
                 IN IF outcome.kind = "raise"
                    THEN Raised(rollout_handler(Exc(outcome.exc, <<>>)), made.client, calls)
                    ELSE Returned(RolloutResult(i, outcome.text), made.client, calls)

\* api.py:439-440  "---" in text, text.split("---")[-1].strip(): the lines
\* after the last rule, without the blank lines around them
HasRule(lines) == \E n \in 1..Len(lines) : lines[n].k = "rule"

RECURSIVE StripBlank(_)
StripBlank(lines) ==
    IF lines = <<>> THEN <<>>
    ELSE IF Head(lines).k = "blank" THEN StripBlank(Tail(lines))
    ELSE IF lines[Len(lines)].k = "blank" THEN StripBlank(SubSeq(lines, 1, Len(lines) - 1))
    ELSE lines

AfterLastRule(lines) ==
    LET n == CHOOSE n \in 1..Len(lines) :
                 lines[n].k = "rule" /\ \A m \in (n + 1)..Len(lines) : lines[m].k /= "rule"
    IN StripBlank(SubSeq(lines, n + 1, Len(lines)))

\* api.py:428-442: the validation pass.  Gives the text to parse, the
\* summary, the validated flag and the calls made.  Every exception of the
\* inner try block is swallowed, with the assignments made before it kept.
validation_pass(g, r, outcome) ==
    LET first == [text |-> r.raw_response, summary |-> None, validated |-> FALSE,
                  calls |-> <<>>]
    IN IF g.provider = "None"
       THEN first   \* None has no complete(): AttributeError
       ELSE LET prompt == build_validation_prompt(r.ideation.understanding.scope,
                                                  r.raw_response)
                calls == << Call("judgment", prompt, outcome) >>
            IN IF outcome.kind = "raise"
               THEN [first EXCEPT !.calls = calls]
               ELSE [text |-> outcome.text,
                     summary |-> IF outcome.text.isstr /\ HasRule(outcome.text.lines)
                                 THEN Some(AfterLastRule(outcome.text.lines))
                                 ELSE None,
                     validated |-> TRUE,
                     calls |-> calls]

\* api.py:451-454  except RuntimeError: raise / except Exception: wrap
judgment_handler(e) == IF e.type = "RuntimeError" THEN e ELSE Wrap("judgment", e)

\* api.py:417-454
run_judgment(g, r, validate, outcome) ==
    LET v == IF validate THEN validation_pass(g, r, outcome)
             ELSE [text |-> r.raw_response, summary |-> None, validated |-> FALSE,
                   calls |-> <<>>]
        parsed == parse_risks(v.text, r.ideation.understanding.matched_domains)
    IN IF parsed.raised
       THEN Raised(judgment_handler(Exc("TypeError", <<>>)), g.provider, v.calls)
       ELSE Returned(JudgmentResult(r, parsed.risks, v.summary, v.validated),
                     g.provider, v.calls)

\* api.py:80-100, 456-477
build_result(jr, raw_response) ==
    [scope |-> jr.rollout.ideation.understanding.scope,
     risks |-> jr.risks,
     matched_domains |-> jr.rollout.ideation.understanding.matched_domains,
     pattern_count |-> jr.rollout.ideation.pattern_count,
     raw_response |-> raw_response,
     depth |-> jr.rollout.ideation.understanding.depth,
     threshold |-> jr.rollout.ideation.understanding.threshold]

(***************************************************************************)
(* Gremlin.analyze (api.py:281-321) as a run: a thread of control that     *)
(* executes the five statements of the method one after the other.         *)
(***************************************************************************)
StageOrder == <<"understanding", "ideation", "rollout", "judgment", "build">>
StageNames == Elems(StageOrder)

IndexOf(stage) == CHOOSE k \in 1..Len(StageOrder) : StageOrder[k] = stage

\* a variant of analyze that goes from Understanding straight to Rollout
next_stage_skipping(stage) ==
    IF stage = "understanding" THEN "rollout"
    ELSE IF IndexOf(stage) = Len(StageOrder) THEN "done"
    ELSE StageOrder[IndexOf(stage) + 1]

\* api.py:317-321: the statement after the one of the given stage
next_stage(stage) ==
    IF IndexOf(stage) = Len(StageOrder) THEN "done"
    ELSE StageOrder[IndexOf(stage) + 1]

NoArts == [s \in StageNames |-> <<>>]

IdleRun == [pc |-> "idle", args |-> <<>>, arts |-> NoArts, exc |-> <<>>,
            trace |-> <<>>, calls |-> <<>>]

Args(scope, context, depth, validate, script) ==
    [scope |-> scope, context |-> context, depth |-> depth, validate |-> validate,
     script |-> script]

StartedRun(args) == [IdleRun EXCEPT !.pc = StageOrder[1], !.args = <<args>>]

\* the outcome the engine gives to the next call of the run
NextOutcome(run) ==
    LET script == run.args[1].script
        n == Len(run.calls) + 1
    IN script[IF n <= Len(script) THEN n ELSE Len(script)]

\* the statement of analyze at run.pc
stage_call(g, run) ==
    LET a == run.args[1]
    IN CASE run.pc = "understanding" ->
                run_understanding(g, a.scope, a.context, a.depth)
         [] run.pc = "ideation" ->
                run_ideation(g, run.arts["understanding"][1])
         [] run.pc = "rollout" ->
                run_rollout(g, run.arts["ideation"][1], NextOutcome(run))
         [] run.pc = "judgment" ->
                run_judgment(g, run.arts["rollout"][1], a.validate, NextOutcome(run))
         [] run.pc = "build" ->
                Returned(build_result(run.arts["judgment"][1],
                                      run.arts["rollout"][1].raw_response),
                         g.provider, <<>>)

\* one statement of analyze: the run after it and the value of g._provider
analyze_step(g, run) ==
    LET o == stage_call(g, run)
    IN [run |-> [run EXCEPT !.pc = IF o.ok THEN next_stage(run.pc) ELSE "raised",
                            !.arts[run.pc] = o.art,
                            !.exc = o.exc,
                            !.trace = Append(@, run.pc),
                            !.calls = @ \o o.calls],
        provider |-> o.provider]

\* analyze from its first statement to its return or its exception
RECURSIVE analyze_from(_, _)
analyze_from(g, run) ==
    IF run.pc \notin StageNames THEN run
    ELSE LET s == analyze_step(g, run)
         IN analyze_from([g EXCEPT !.provider = s.provider], s.run)

analyze(g, scope, context, depth, validate, script) ==
    analyze_from(g, StartedRun(Args(scope, context, depth, validate, script)))

\* api.py:350-354: the call the worker thread makes,
\* lambda: self.analyze(scope, context, depth, validate)
analyze_async_start(scope, context, depth, validate, script) ==
    StartedRun(Args(scope, context, depth, validate, script))

\* api.py:323-354  analyze_async, awaited to its end
analyze_async(g, scope, context, depth, validate, script) ==
    analyze_from(g, analyze_async_start(scope, context, depth, validate, script))

(***************************************************************************)
(* The state.                                                              *)
(***************************************************************************)
VARIABLES
    g,      \* the Gremlin instance and its environment:
            \*   catalog    self._patterns
            \*   threshold  self.threshold
            \*   provider   self._provider: "None" or "client"
            \*   config     "ok" when the provider configuration is valid
    runs,   \* the runs of analyze on g
    files,  \* the run directory: for each artifact file, <<>> or <<JSON value>>
    cli,    \* the last command run on the run directory
    heap,   \* the list objects of the process: address -> items
    arts,   \* the artifacts built, holding addresses of list objects
    held,   \* the addresses the host has got from to_dict, and its changes
    fn,     \* a library function applied on its own: its name, its arguments
            \* and, once it has returned, its result
    ci      \* a run of .github/scripts/gremlin_analyze.py

vars == <<g, runs, files, cli, heap, arts, held, fn, ci>>
objvars == <<heap, arts, held>>

RunIds == 1..MaxRuns

FileNames == {"understanding.json", "scenarios.json", "results.json", "scores.json"}

NoFiles == [f \in FileNames |-> <<>>]

\* cmd the command, exit its exit code, error why it failed, exc the
\* exception that came out of its stage method, art the artifact the stage
\* method returned, calls the engine calls it made, chain how many of the last
\* commands were the stage commands in pipeline order
NoCommand == [cmd |-> "", exit |-> 0, error |-> "", exc |-> <<>>, art |-> <<>>,
              calls |-> <<>>, validate |-> FALSE, chain |-> 0]

\* api.py:245-279  Gremlin.__init__: the catalog is loaded, no client yet
Gremlin(catalog, threshold, config) ==
    [catalog |-> catalog, threshold |-> threshold, config |-> config,
     provider |-> "None"]

\* The list objects of the loaded catalog: the universal list at address 1,
\* the pattern list of the k-th domain at address 1 + k.
CatalogAddr(name) ==
    IF name = "universal" THEN 1
    ELSE 1 + CHOOSE k \in 1..Len(Catalog.domain_specific) :
                 Catalog.domain_specific[k].name = name

LoadedHeap ==
    [a \in 1..(1 + Len(Catalog.domain_specific)) |->
        IF a = 1 THEN Catalog.universal ELSE Catalog.domain_specific[a - 1].patterns]

\* no library function is applied on its own
NoApplication == [op |-> "", args |-> <<>>, out |-> <<>>]

\* the script is not run
NoCi == [pc |-> "none"]

NoObjects ==
    /\ heap = LoadedHeap
    /\ arts = <<>>
    /\ held = [addrs |-> {}, appends |-> 0]

Init ==
    /\ \E c \in Catalogs, th \in Thresholds, cfg \in {"ok", "bad"} :
           g = Gremlin(c, th, cfg)
    /\ runs = [t \in RunIds |-> IdleRun]
    /\ files = NoFiles
    /\ cli = NoCommand
    /\ NoObjects
    /\ fn = NoApplication
    /\ ci = NoCi

\* a caller enters analyze(scope, context, depth, validate)
AnalyzeStart(t) ==
    /\ runs[t].pc = "idle"
    /\ \E scope \in Scopes, context \in Contexts, depth \in Depths,
          validate \in BOOLEAN, script \in Scripts :
           runs' = [runs EXCEPT ![t] =
                       StartedRun(Args(scope, context, depth, validate, script))]
    /\ UNCHANGED <<g, files, cli, objvars, fn, ci>>

\* a variant in which Ideation takes the UnderstandingResult from a place the
\* runs share, where the first run has left its own
AnalyzeStep_shared_understanding(t) ==
    /\ runs[t].pc \in StageNames
    /\ LET run == IF runs[t].pc = "ideation" /\ runs[1].arts["understanding"] /= <<>>
                  THEN [runs[t] EXCEPT !.arts["understanding"] = runs[1].arts["understanding"]]
                  ELSE runs[t]
           s == analyze_step(g, run)
       IN /\ runs' = [runs EXCEPT ![t] = s.run]
          /\ g' = [g EXCEPT !.provider = s.provider]
    /\ UNCHANGED <<files, cli, objvars, fn, ci>>

\* the run executes its next statement
AnalyzeStep(t) ==
    /\ runs[t].pc \in StageNames
    /\ LET s == analyze_step(g, runs[t])
       IN /\ runs' = [runs EXCEPT ![t] = s.run]
          /\ g' = [g EXCEPT !.provider = s.provider]
    /\ UNCHANGED <<files, cli, objvars, fn, ci>>

Next == \E t \in RunIds : AnalyzeStart(t) \/ AnalyzeStep(t)

Spec == Init /\ [][Next]_vars

(***************************************************************************)
(* Concurrent callers of one Gremlin instance: each thread calls analyze,  *)
(* or is the worker thread that analyze_async hands its call to.  The      *)
(* threads interleave between the statements of analyze.                   *)
(***************************************************************************)
\* number of threads that call into the one instance
MaxThreads == 2

Threads == 1..MaxThreads

\* the calls the threads make
ConcArgs ==
    { Args(<<"P", "a", "y">>, None, "quick", FALSE, <<Returns(RespTwo), Returns(RespValidated)>>),
      Args(<<"x">>, Some("Using Stripe"), "deep", TRUE,
           <<Returns(RespTwo), Returns(RespValidated)>>),
      Args(<<"p", "a", "y", " ", "a", "u", "t", "h">>, None, "deep", TRUE,
           <<Returns(RespPlain), Raises("LLMProviderError")>>) }

\* the run of a thread, with the way it was entered
Entered(mode, run) == run @@ [mode |-> mode]

\* a thread calls analyze(scope, context, depth, validate)
CallAnalyze(t) ==
    /\ runs[t].pc = "idle"
    /\ \E a \in ConcArgs :
           runs' = [runs EXCEPT ![t] = Entered("analyze", StartedRun(a))]
    /\ UNCHANGED <<g, files, cli, objvars, fn, ci>>

\* api.py:350-354: analyze_async hands the call to a worker thread
CallAnalyzeAsync(t) ==
    /\ runs[t].pc = "idle"
    /\ \E a \in ConcArgs :
           runs' = [runs EXCEPT ![t] =
                       Entered("analyze_async",
                               analyze_async_start(a.scope, a.context, a.depth,
                                                   a.validate, a.script))]
    /\ UNCHANGED <<g, files, cli, objvars, fn, ci>>

InitConc ==
    /\ \E c \in Catalogs, cfg \in {"ok", "bad"} : g = Gremlin(c, 80, cfg)
    /\ runs = [t \in Threads |-> IdleRun]
    /\ files = NoFiles
    /\ cli = NoCommand
    /\ NoObjects
    /\ fn = NoApplication
    /\ ci = NoCi

NextConc == \E t \in Threads : CallAnalyze(t) \/ CallAnalyzeAsync(t) \/ AnalyzeStep(t)

SpecConc == InitConc /\ [][NextConc]_vars

(***************************************************************************)
(* gremlin/cli.py: the stage commands on one run directory.                *)
(***************************************************************************)
\* the arguments of  gremlin understand: scope, --context, --depth, --threshold
CliInputs ==
    { [scope |-> <<"P", "a", "y">>, context |-> None, depth |-> "quick",
       threshold |-> 80],
      [scope |-> <<"p", "a", "y", " ", "a", "u", "t", "h">>,
       context |-> Some(" Using Stripe "), depth |-> "deep", threshold |-> 70],
      [scope |-> <<"x">>, context |-> Some(""), depth |-> "quick", threshold |-> 80] }

\* str.strip() on the context strings of the model
StripMap == (" Using Stripe " :> "Using Stripe")
strip(str) == IF str \in DOMAIN StripMap THEN StripMap[str] ELSE str

\* cli.py:39-65, for a context given as a plain string:  context.strip() or None
resolve_context(context) ==
    IF ~context.some THEN None
    ELSE IF strip(context.v) = "" THEN None ELSE Some(strip(context.v))

\* cli.py:466-477: the file is missing, or its JSON is loaded
Missing(filename) == files[filename] = <<>>
load_run_artifact(filename) == json_loads(files[filename][1])

\* cli.py:480-485
write_run_artifact(filename, data) ==
    files' = [files EXCEPT ![filename] = << json_dumps(data) >>]

\* the command ended: what is kept of it
Ended(cmd, exit, error, o, validate, chain) ==
    cli' = [cmd |-> cmd, exit |-> exit, error |-> error, exc |-> o.exc,
            art |-> o.art, calls |-> o.calls, validate |-> validate, chain |-> chain]

NoStage == [ok |-> FALSE, art |-> <<>>, exc |-> <<>>, provider |-> "None", calls |-> <<>>]

\* cli.py:488-525.  An exception of the stage method is not caught: the
\* command ends with exit code 1 and writes nothing.
CliUnderstand ==
    /\ \E a \in CliInputs :
         LET gg == Gremlin(g.catalog, a.threshold, g.config)
             o == run_understanding(gg, a.scope, resolve_context(a.context), a.depth)
         IN IF o.ok
            THEN /\ write_run_artifact("understanding.json", U_to_dict(o.art[1]))
                 /\ Ended("understand", 0, "", o, FALSE, 1)
            ELSE /\ UNCHANGED files
                 /\ Ended("understand", 1, "stage", o, FALSE, 1)
    /\ UNCHANGED <<g, runs, objvars, fn, ci>>

\* a variant of ideate that reports success when understanding.json is missing
CliIdeate_ignoring_missing ==
    /\ LET chain == IF cli.chain = 1 THEN 2 ELSE 0
       IN IF Missing("understanding.json")
          THEN /\ UNCHANGED files
               /\ Ended("ideate", 0, "", NoStage, FALSE, chain)
          ELSE LET u == U_from_dict(load_run_artifact("understanding.json"))
                   gg == Gremlin(g.catalog, u.threshold, g.config)
                   o == run_ideation(gg, u)
               IN IF o.ok
                  THEN /\ write_run_artifact("scenarios.json", I_to_dict(o.art[1]))
                       /\ Ended("ideate", 0, "", o, FALSE, chain)
                  ELSE /\ UNCHANGED files
                       /\ Ended("ideate", 1, "stage", o, FALSE, chain)
    /\ UNCHANGED <<g, runs, objvars, fn, ci>>

\* cli.py:528-555
CliIdeate ==
    /\ LET chain == IF cli.chain = 1 THEN 2 ELSE 0
       IN IF Missing("understanding.json")
          THEN /\ UNCHANGED files
               /\ Ended("ideate", 1, "missing", NoStage, FALSE, chain)
          ELSE LET u == U_from_dict(load_run_artifact("understanding.json"))
                   gg == Gremlin(g.catalog, u.threshold, g.config)
                   o == run_ideation(gg, u)
               IN IF o.ok
                  THEN /\ write_run_artifact("scenarios.json", I_to_dict(o.art[1]))
                       /\ Ended("ideate", 0, "", o, FALSE, chain)
                  ELSE /\ UNCHANGED files
                       /\ Ended("ideate", 1, "stage", o, FALSE, chain)
    /\ UNCHANGED <<g, runs, objvars, fn, ci>>

\* cli.py:558-589.  Every exception of the stage method is caught: exit 1.
CliRollout ==
    /\ \E outcome \in FirstOutcomes :
         LET chain == IF cli.chain = 2 THEN 3 ELSE 0
         IN IF Missing("scenarios.json")
            THEN /\ UNCHANGED files
                 /\ Ended("rollout", 1, "missing", NoStage, FALSE, chain)
            ELSE LET i == I_from_dict(load_run_artifact("scenarios.json"))
                     gg == Gremlin(g.catalog, i.understanding.threshold, g.config)
                     o == run_rollout(gg, i, outcome)
                 IN IF o.ok
                    THEN /\ write_run_artifact("results.json", R_to_dict(o.art[1]))
                         /\ Ended("rollout", 0, "", o, FALSE, chain)
                    ELSE /\ UNCHANGED files
                         /\ Ended("rollout", 1, "stage", o, FALSE, chain)
    /\ UNCHANGED <<g, runs, objvars, fn, ci>>

\* cli.py:592-647.  With --validate the client is built first; ValueError
\* ends the command with exit code 1.
CliJudge ==
    /\ \E validate \in BOOLEAN, outcome \in SecondOutcomes :
         LET chain == IF cli.chain = 3 THEN 4 ELSE 0
         IN IF Missing("results.json")
            THEN /\ UNCHANGED files
                 /\ Ended("judge", 1, "missing", NoStage, validate, chain)
            ELSE LET r == R_from_dict(load_run_artifact("results.json"))
                     g0 == Gremlin(g.catalog, r.ideation.understanding.threshold, g.config)
                     made == get_provider(g.config)
                 IN IF validate /\ ~made.ok
                    THEN /\ UNCHANGED files
                         /\ Ended("judge", 1, "config", NoStage, validate, chain)
                    ELSE LET gg == IF validate THEN [g0 EXCEPT !.provider = made.client]
                                   ELSE g0
                             o == run_judgment(gg, r, validate, outcome)
                         IN IF o.ok
                            THEN /\ write_run_artifact("scores.json", J_to_dict(o.art[1]))
                                 /\ Ended("judge", 0, "", o, validate, chain)
                            ELSE /\ UNCHANGED files
                                 /\ Ended("judge", 1, "stage", o, validate, chain)
    /\ UNCHANGED <<g, runs, objvars, fn, ci>>

\* tests/test_cli_stages.py:140-151  _setup_results: a ready-made
\* results.json is put into the run directory
FixtureIdeation ==
    IdeationResult(UnderstandingResult(<<"p", "a", "y">>, <<"payments">>, "quick", 80, None),
                   [universal |-> <<>>], 5)

PlaceResults ==
    /\ \E raw \in Responses :
         LET r == RolloutResult(FixtureIdeation, raw)
         IN /\ write_run_artifact("results.json", R_to_dict(r))
            /\ cli' = [NoCommand EXCEPT !.cmd = "place", !.art = <<r>>]
    /\ UNCHANGED <<g, runs, objvars, fn, ci>>

InitCli ==
    /\ \E c \in Catalogs, cfg \in {"ok", "bad"} : g = Gremlin(c, 80, cfg)
    /\ runs = [t \in RunIds |-> IdleRun]
    /\ files = NoFiles
    /\ cli = NoCommand
    /\ NoObjects
    /\ fn = NoApplication
    /\ ci = NoCi

NextCli == CliUnderstand \/ CliIdeate \/ CliRollout \/ CliJudge \/ PlaceResults

SpecCli == InitCli /\ [][NextCli]_vars

\* the stage commands alone, on a run directory that starts empty
NextRunDir == CliUnderstand \/ CliIdeate \/ CliRollout \/ CliJudge

SpecRunDir == InitCli /\ [][NextRunDir]_vars

(***************************************************************************)
(* Properties of Gremlin.analyze (specification Spec).                     *)
(***************************************************************************)
WellFormed(catalog) == KeywordTableOk(get_domain_keywords(catalog))

RunEnded(run) == run.pc \in {"done", "raised"}

\* the engine calls a run made in the given stage
CallsIn(run, stage) == { k \in 1..Len(run.calls) : run.calls[k].stage = stage }

C2_ValidationFallback ==
    \A t \in RunIds :
        LET r == runs[t]
        IN (/\ RunEnded(r)
            /\ r.args[1].validate
            /\ WellFormed(g.catalog) /\ g.config = "ok"
            /\ r.args[1].script[1].kind = "text" /\ r.args[1].script[1].text.isstr
            /\ r.args[1].script[2].kind = "raise")
           => /\ r.pc = "done"
              /\ ~r.arts["judgment"][1].validated
              /\ r.arts["judgment"][1].validation_summary = None
              /\ LET a == r.args[1]
                     plain == analyze(Gremlin(g.catalog, g.threshold, g.config), a.scope,
                                      a.context, a.depth, FALSE, a.script)
                 IN plain.pc = "done" /\ r.arts["build"][1] = plain.arts["build"][1]

\* C4: engine calls per stage.  Understanding and Ideation make no engine
\* call and build no client; with a valid configuration a Rollout that has
\* executed has called the engine exactly once; Judgment has called it once
\* with validate=True and never with validate=False; a run that is done has
\* made 1 call (validate=False) or 2 calls (validate=True).
C4_EngineCallsPerStage ==
    \A t \in RunIds :
        LET r == runs[t]
        IN /\ CallsIn(r, "understanding") = {} /\ CallsIn(r, "ideation") = {}
           /\ r.pc \in {"understanding", "ideation", "rollout"} => g.provider = "None"
           /\ ("rollout" \in Elems(r.trace) /\ g.config = "ok") =>
                  Cardinality(CallsIn(r, "rollout")) = 1
           /\ "judgment" \in Elems(r.trace) =>
                  Cardinality(CallsIn(r, "judgment")) = IF r.args[1].validate THEN 1 ELSE 0
           /\ r.pc = "done" => Len(r.calls) = IF r.args[1].validate THEN 2 ELSE 1

\* C5: an engine error in Rollout is fatal and not retried.  A run on a
\* well-formed catalog with a valid configuration whose engine raises on its
\* first call ends with an exception, after exactly one engine call, without
\* entering Judgment and without a result.
C5_RolloutErrorFatal ==
    \A t \in RunIds :
        LET r == runs[t]
        IN (/\ RunEnded(r)
            /\ WellFormed(g.catalog) /\ g.config = "ok"
            /\ r.args[1].script[1].kind = "raise")
           => /\ r.pc = "raised"
              /\ Len(r.calls) = 1
              /\ "judgment" \notin Elems(r.trace)
              /\ r.arts["build"] = <<>>

\* C11: for every catalog and every list of matched domains, the
\* pattern_count of the IdeationResult is the number of universal entries
\* selected plus the sum of the lengths of the pattern lists of all selected
\* domains.
C11_PatternCountSumsDomains ==
    \A t \in RunIds :
        runs[t].arts["ideation"] /= <<>> =>
            LET i == runs[t].arts["ideation"][1]
                sel == i.selected_patterns
            IN i.pattern_count
                   = Len(sel.universal) + SumLens(sel.domain, DOMAIN sel.domain)

\* C19: context reaches the engine.  On a well-formed catalog with a valid
\* configuration, a run whose Rollout stage has executed has built the
\* prompts and called the engine exactly once in that stage; the user
\* message of the call has a context section holding the context when one
\* was given, and no context section when none was given.
C19_ContextReachesEngine ==
    \A t \in RunIds :
        LET r == runs[t]
        IN ("rollout" \in Elems(r.trace) /\ WellFormed(g.catalog) /\ g.config = "ok") =>
               /\ Cardinality(CallsIn(r, "rollout")) = 1
               /\ \A k \in CallsIn(r, "rollout") :
                      LET user == r.calls[k].prompt.user
                          context == r.args[1].context
                      IN /\ user.scope = r.args[1].scope
                         /\ context.some =>
                                ("context" \in DOMAIN user /\ user.context = context.v)
                         /\ ~context.some => "context" \notin DOMAIN user

(***************************************************************************)
(* Properties of the stage methods and the stage commands (SpecCli).       *)
(***************************************************************************)
\* the stage whose method a command calls
StageOfCommand == [understand |-> "understanding", ideate |-> "ideation",
                   rollout |-> "rollout", judge |-> "judgment"]

\* the last command made a validation call and the engine raised or gave a
\* response without text
ValidationCallFailed ==
    /\ cli.cmd = "judge" /\ cli.validate /\ cli.calls /= <<>>
    /\ \/ cli.calls[1].outcome.kind = "raise"
       \/ ~cli.calls[1].outcome.text.isstr

\* C3: validation never makes the analysis fail.  When the validation call
\* of _run_judgment(r, validate=True) raises or returns a response without
\* usable text, the stage raises nothing and returns a JudgmentResult whose
\* risks are the parse of the first-pass response r.raw_response.
C3_ValidationNeverFails ==
    ValidationCallFailed =>
        /\ cli.exc = <<>>
        /\ cli.art /= <<>>
        /\ LET jr == cli.art[1]
           IN jr.risks = parse_risks(jr.rollout.raw_response,
                                     jr.rollout.ideation.understanding.matched_domains).risks

RoundTrip(cmd, x) ==
    CASE cmd = "understand" -> U_from_dict(json_loads(json_dumps(U_to_dict(x))))
      [] cmd = "ideate" -> I_from_dict(json_loads(json_dumps(I_to_dict(x))))
      [] cmd \in {"rollout", "place"} -> R_from_dict(json_loads(json_dumps(R_to_dict(x))))
      [] cmd = "judge" -> J_from_dict(json_loads(json_dumps(J_to_dict(x))))

\* C8: round trip.  Every artifact a stage returns, of each of the four
\* types, is equal to what from_dict gives back from the JSON text of its
\* to_dict, version tag and embedded upstream chain included.
C8_RoundTrip ==
    cli.art /= <<>> => RoundTrip(cli.cmd, cli.art[1]) = cli.art[1]

\* a validated JudgmentResult with risks, a summary and a context upstream
C8_ValidatedJudgment ==
    /\ cli.cmd = "judge" /\ cli.art /= <<>>
    /\ cli.art[1].validated /\ cli.art[1].validation_summary.some
    /\ cli.art[1].risks /= <<>>

\* C9: stage-by-stage execution equals the one-shot pipeline.  After
\* understand, ideate, rollout, judge have run in this order on a well-formed
\* catalog with a valid configuration, scores.json holds the JudgmentResult
\* that analyze builds in memory for the same scope, context, depth,
\* threshold, catalog and validate flag, for some responses of the engine.
C9_StagedEqualsOneShot ==
    (cli.chain = 4 /\ WellFormed(g.catalog) /\ g.config = "ok") =>
        /\ files["scores.json"] /= <<>>
        /\ LET u == U_from_dict(load_run_artifact("understanding.json"))
               jr == J_from_dict(load_run_artifact("scores.json"))
           IN \E script \in Scripts :
                  LET a == analyze(Gremlin(g.catalog, u.threshold, g.config), u.scope,
                                   u.context, u.depth, cli.validate, script)
                  IN a.pc = "done" /\ a.arts["judgment"][1] = jr

\* the JudgmentResult the judge command has built from results.json
JudgedRisks ==
    IF cli.cmd = "judge" /\ cli.art /= <<>> THEN cli.art[1].risks ELSE <<>>

\* C14: every Risk of a JudgmentResult has its severity in CRITICAL, HIGH,
\* MEDIUM, LOW: a section whose heading word is none of the four yields no
\* Risk.
C14_SeverityIsOneOfFour ==
    \A k \in 1..Len(JudgedRisks) :
        JudgedRisks[k].severity \in {"CRITICAL", "HIGH", "MEDIUM", "LOW"}

\* C15: every Risk of a JudgmentResult has an integer confidence in 0..100,
\* whatever number the heading gives in its parentheses.
C15_ConfidenceWithinRange ==
    \A k \in 1..Len(JudgedRisks) : JudgedRisks[k].confidence \in 0..100

\* the file a stage command loads first
Upstream ==
    [ideate |-> "understanding.json", rollout |-> "scenarios.json", judge |-> "results.json"]

\* C23: a stage command invoked without its upstream artifact (ideate without
\* understanding.json, rollout without scenarios.json, judge without
\* results.json) ends with exit code 1, having run no stage, made no engine
\* call and built no client, and leaves every file of the run directory as
\* it was.
C23_MissingUpstreamExitsOne ==
    [][ \A c \in DOMAIN Upstream :
          (cli' /= cli /\ cli'.cmd = c /\ Missing(Upstream[c])) =>
              /\ cli'.exit = 1
              /\ cli'.art = <<>> /\ cli'.calls = <<>>
              /\ files' = files
              /\ g' = g ]_vars

\* judge has ended with exit code 1 for lack of results.json in a run
\* directory that holds the artifacts of earlier stages
C23_JudgeWithoutResults ==
    /\ cli.cmd = "judge" /\ cli.error = "missing" /\ cli.exit = 1
    /\ files["understanding.json"] /= <<>> /\ files["scenarios.json"] /= <<>>
    /\ files["results.json"] = <<>>

\* C29: run-directory consistency.  After any sequence of understand,
\* ideate, rollout and judge commands on one run directory, every artifact
\* file present embeds an upstream artifact equal to the current content of
\* the upstream stage's file: scenarios.json the artifact of
\* understanding.json, results.json the one of scenarios.json, scores.json
\* the one of results.json.
C29_RunDirectoryConsistent ==
    /\ ~Missing("scenarios.json") =>
           /\ ~Missing("understanding.json")
           /\ I_from_dict(load_run_artifact("scenarios.json")).understanding
                  = U_from_dict(load_run_artifact("understanding.json"))
    /\ ~Missing("results.json") =>
           /\ ~Missing("scenarios.json")
           /\ R_from_dict(load_run_artifact("results.json")).ideation
                  = I_from_dict(load_run_artifact("scenarios.json"))
    /\ ~Missing("scores.json") =>
           /\ ~Missing("results.json")
           /\ J_from_dict(load_run_artifact("scores.json")).rollout
                  = R_from_dict(load_run_artifact("results.json"))

\* C27: the result is consistent with its own raw response.  For the
\* JudgmentResult j that Judgment has returned for a RolloutResult r, with or
\* without validation, the result that analyze assembles from them,
\* _build_result(j, raw_response=r.raw_response) (api.py:320-321), has as its
\* risks the parse of its raw_response with its matched domains as fallback.
C27_RisksAreParseOfRawResponse ==
    (cli.cmd = "judge" /\ cli.art /= <<>>) =>
        LET j == cli.art[1]
            result == build_result(j, j.rollout.raw_response)
        IN parse_risks(result.raw_response, result.matched_domains)
               = [raised |-> FALSE, risks |-> result.risks]

(***************************************************************************)
(* The artifacts as Python objects (specification SpecObj).                *)
(*                                                                         *)
(* A frozen dataclass forbids assigning to its fields; a field that is a   *)
(* list holds a reference to a list object.  Here a list-valued field is   *)
(* the address of a list object in heap, and an artifact is               *)
(*   [type "U", scope, matched_domains: address, built]  or                *)
(*   [type "I", understanding: index in arts, universal: address,          *)
(*    domain: name -> address, pattern_count, built]                       *)
(* where built is the content the artifact had when it was built.          *)
(***************************************************************************)
\* the content of an artifact: its fields with the lists they refer to
RECURSIVE Content(_, _, _)
Content(h, as, k) ==
    IF as[k].type = "U"
    THEN [scope |-> as[k].scope, matched_domains |-> h[as[k].matched_domains]]
    ELSE [understanding |-> Content(h, as, as[k].understanding),
          universal |-> h[as[k].universal],
          domain |-> [d \in DOMAIN as[k].domain |-> h[as[k].domain[d]]],
          pattern_count |-> as[k].pattern_count]

\* api.py:362-376, inference.py:13-21: infer_domains builds a new list, the
\* artifact holds it
ObjUnderstanding ==
    /\ Len(arts) < MaxArts
    /\ \E scope \in Scopes :
         LET matched == infer_domains(scope, get_domain_keywords(Catalog))
             addr == Len(heap) + 1
             h == Append(heap, matched)
             u == [type |-> "U", scope |-> scope, matched_domains |-> addr]
         IN /\ heap' = h
            /\ arts' = Append(arts, u @@ [built |-> Content(h, <<u>>, 1)])
    /\ UNCHANGED <<g, runs, files, cli, held, fn, ci>>

\* api.py:378-391, patterns.py:152-160: the selection refers to the
\* catalog's own lists,  all_patterns.get("universal", [])  and
\* domain_specific[domain].get("patterns", [])
ObjIdeation ==
    /\ Len(arts) < MaxArts
    /\ \E k \in 1..Len(arts) :
         /\ arts[k].type = "U"
         /\ LET matched == heap[arts[k].matched_domains]
                selected == select_patterns(arts[k].scope, Catalog, matched)
                i == [type |-> "I", understanding |-> k,
                      universal |-> CatalogAddr("universal"),
                      domain |-> [d \in DOMAIN selected.domain |-> CatalogAddr(d)],
                      pattern_count |-> count_patterns(selected)]
                n == Len(arts) + 1
            IN arts' = Append(arts, i @@ [built |-> Content(heap, Append(arts, i), n)])
    /\ UNCHANGED <<g, runs, files, cli, heap, held, fn, ci>>

\* the addresses of the lists a to_dict of the artifact hands out
\* (stages.py:40-48, 75-81: the dict holds the fields themselves)
ListsOf(as, k) ==
    IF as[k].type = "U" THEN { as[k].matched_domains }
    ELSE { as[k].universal } \cup { as[k].domain[d] : d \in DOMAIN as[k].domain }
         \cup { as[as[k].understanding].matched_domains }

\* the host calls to_dict on an artifact and keeps the dict
ObjToDict ==
    /\ \E k \in 1..Len(arts) :
         /\ ~(ListsOf(arts, k) \subseteq held.addrs)
         /\ held' = [held EXCEPT !.addrs = @ \cup ListsOf(arts, k)]
    /\ UNCHANGED <<g, runs, files, cli, heap, arts, fn, ci>>

\* the item the host appends to a list: a category to the universal list, a
\* name to any other
NewItem(addr) ==
    IF addr = CatalogAddr("universal") THEN [category |-> "x", patterns |-> <<>>]
    ELSE "x"

\* the host appends to a list of the dict it got from to_dict
ObjChangeReturned ==
    /\ held.appends < MaxAppends
    /\ \E addr \in held.addrs :
         heap' = [heap EXCEPT ![addr] = Append(@, NewItem(addr))]
    /\ held' = [held EXCEPT !.appends = @ + 1]
    /\ UNCHANGED <<g, runs, files, cli, arts, fn, ci>>

\* the host appends to a list of the catalog
ObjChangeCatalog ==
    /\ held.appends < MaxAppends
    /\ \E addr \in DOMAIN LoadedHeap :
         heap' = [heap EXCEPT ![addr] = Append(@, NewItem(addr))]
    /\ held' = [held EXCEPT !.appends = @ + 1]
    /\ UNCHANGED <<g, runs, files, cli, arts, fn, ci>>

InitObj ==
    /\ g = Gremlin(Catalog, 80, "ok")
    /\ runs = [t \in RunIds |-> IdleRun]
    /\ files = NoFiles
    /\ cli = NoCommand
    /\ NoObjects
    /\ fn = NoApplication
    /\ ci = NoCi

NextObj ==
    ObjUnderstanding \/ ObjIdeation \/ ObjToDict \/ ObjChangeReturned \/ ObjChangeCatalog

SpecObj == InitObj /\ [][NextObj]_vars

\* C10: artifacts are immutable deep snapshots.  The content of every
\* artifact built (its matched domains, its selected patterns, its embedded
\* upstream artifact) is at every later time the content it was built with,
\* whatever stages run later and whatever the host does to the catalog or to
\* a dict returned by to_dict.
C10_DeepImmutableSnapshots ==
    \A k \in 1..Len(arts) : Content(heap, arts, k) = arts[k].built

(***************************************************************************)
(* The library functions applied on their own: infer_domains,              *)
(* select_patterns, Gremlin._parse_risks and AnalysisResult.to_junit, each *)
(* called once on arguments chosen before the call.                        *)
(***************************************************************************)
\* scopes, among them one in capitals
LibScopes == Scopes \cup { <<"A", "U", "T", "H">>, <<"p", "a", "y", " ", "x">> }

\* keyword tables: the one of the catalog; one with a capitalised keyword;
\* one with the domains inserted in the other order
TableCapital ==
    << [name |-> "payments", keywords |-> Some(<< <<"P", "a", "y">> >>)],
       [name |-> "auth", keywords |-> Some(<< <<"a", "u", "t", "h">> >>)] >>

TableReversed ==
    << [name |-> "auth", keywords |-> Some(<< <<"a", "u", "t", "h">>, <<"u", "t">> >>)],
       [name |-> "payments", keywords |-> Some(<< <<"x">>, <<"p", "a", "y">> >>)] >>

KeywordTables == { get_domain_keywords(Catalog), TableCapital, TableReversed }

\* a catalog without universal entries, "auth" with an empty pattern list
CatalogSparse ==
    [ universal |-> <<>>,
      domain_specific |->
        << [name |-> "auth", keywords |-> Some(<< <<"a", "u", "t", "h">> >>),
            patterns |-> <<>>],
           [name |-> "payments", keywords |-> Some(<< <<"p", "a", "y">> >>),
            patterns |-> <<"p1">>] >> ]

\* lists of matched domains, "search" being in no catalog
MatchedLists == { <<>>, <<"payments">>, <<"auth", "payments">>, <<"payments", "auth">>,
                  <<"search">>, <<"payments", "search">> }

\* api.py:80-100  AnalysisResult, with the defaults of its last three fields
AnalysisResult(scope, risks, matched_domains, pattern_count) ==
    [scope |-> scope, risks |-> risks, matched_domains |-> matched_domains,
     pattern_count |-> pattern_count, raw_response |-> Text(<<>>),
     depth |-> "quick", threshold |-> 80]

\* risks as tests/test_api.py:24-60 builds them
RiskOf(severity, title) ==
    Risk(severity, 85, "What if the session expires?", "Lost cart", <<"auth">>, title)

RiskLists ==
    { <<>>,
      << RiskOf("CRITICAL", "Race") >>,
      << RiskOf("LOW", "") >>,
      << RiskOf("CRITICAL", "Race"), RiskOf("HIGH", ""), RiskOf("MEDIUM", "Drift"),
         RiskOf("LOW", "") >>,
      << RiskOf("MEDIUM", ""), RiskOf("HIGH", "Race"), RiskOf("HIGH", "") >>,
      << RiskOf("NOTE", ""), RiskOf("CRITICAL", "") >> }

\* a call of a library function that has not returned yet
Pending(op, args) == [op |-> op, args |-> args, out |-> <<>>]

LibCalls ==
    { Pending("infer_domains", [scope |-> s, table |-> k]) :
          s \in LibScopes, k \in KeywordTables }
    \cup { Pending("select_patterns", [scope |-> s, catalog |-> c, matched |-> m]) :
               s \in {<<"x">>, <<"P", "a", "y">>}, c \in {Catalog, CatalogSparse},
               m \in MatchedLists }
    \cup { Pending("parse_risks", [text |-> x, domains |-> d]) :
               x \in ParserTexts, d \in {<<>>, <<"payments">>} }
    \cup { Pending("to_junit", [result |-> AnalysisResult(s, rs, <<>>, 0)]) :
               s \in {<<"x">>, <<"p", "a", "y", " ", "x">>}, rs \in RiskLists }

\* a variant of is_high_severity that takes CRITICAL only
is_high_severity_critical_only(risk) == upper(risk.severity) = "CRITICAL"

\* api.py:74-77  Risk.is_high_severity
is_high_severity(risk) == upper(risk.severity) \in {"CRITICAL", "HIGH"}

\* One part of the XML text to_junit joins with newlines: an opening tag
\* with its attributes, a closing tag ("/..."), or a line of text ("#text").
XmlPart(tag, attrs, text) == [tag |-> tag, attrs |-> attrs, text |-> text]

\* api.py:139  self.scope.replace(' ', '_')
replace_blanks(scope) == [k \in 1..Len(scope) |-> IF scope[k] = " " THEN "_" ELSE scope[k]]

\* api.py:140  risk.title or f"risk_{i}"
testname(risk, i) == IF risk.title /= "" THEN <<risk.title>> ELSE <<"risk_", i>>

\* api.py:138-159: the parts of the i-th risk
junit_case(result, i) ==
    LET risk == result.risks[i]
        open == XmlPart("testcase",
                        << <<"classname", <<"gremlin.", replace_blanks(result.scope)>> >>,
                           <<"name", testname(risk, i)>> >>, <<>>)
        body == IF is_high_severity(risk)
                THEN << XmlPart("failure",
                                << <<"message", <<risk.severity, ": ", risk.scenario>> >> >>,
                                <<>>),
                        XmlPart("#text", <<>>, <<"Severity: ", risk.severity>>),
                        XmlPart("#text", <<>>, <<"Confidence: ", risk.confidence, "%">>),
                        XmlPart("#text", <<>>, <<"Impact: ", risk.impact>>),
                        XmlPart("#text", <<>>, <<"Domains: ", risk.domains>>),
                        XmlPart("/failure", <<>>, <<>>) >>
                ELSE << XmlPart("system-out", <<>>, <<>>),
                        XmlPart("#text", <<>>,
                                <<risk.severity, " (", risk.confidence, "%): ",
                                  risk.scenario>>),
                        XmlPart("#text", <<>>, <<"Impact: ", risk.impact>>),
                        XmlPart("/system-out", <<>>, <<>>) >>
    IN <<open>> \o body \o << XmlPart("/testcase", <<>>, <<>>) >>

RECURSIVE junit_cases(_, _)
junit_cases(result, i) ==
    IF i > Len(result.risks) THEN <<>>
    ELSE junit_case(result, i) \o junit_cases(result, i + 1)

\* api.py:124-161  AnalysisResult.to_junit
to_junit(result) ==
    LET test_count == Len(result.risks)
        failure_count ==
            Cardinality({ i \in 1..Len(result.risks) : is_high_severity(result.risks[i]) })
    IN << XmlPart("?xml", << <<"version", "1.0">>, <<"encoding", "UTF-8">> >>, <<>>),
          XmlPart("testsuite",
                  << <<"name", "Gremlin QA Analysis">>, <<"tests", test_count>>,
                     <<"failures", failure_count>> >>, <<>>) >>
       \o junit_cases(result, 1)
       \o << XmlPart("/testsuite", <<>>, <<>>) >>

\* the call returns
Return(v) == fn' = [fn EXCEPT !.out = <<v>>]

LibInferDomains ==
    /\ fn.op = "infer_domains" /\ fn.out = <<>>
    /\ Return(infer_domains(fn.args.scope, fn.args.table))
    /\ UNCHANGED <<g, runs, files, cli, objvars, ci>>

LibSelectPatterns ==
    /\ fn.op = "select_patterns" /\ fn.out = <<>>
    /\ Return(select_patterns(fn.args.scope, fn.args.catalog, fn.args.matched))
    /\ UNCHANGED <<g, runs, files, cli, objvars, ci>>

LibParseRisks ==
    /\ fn.op = "parse_risks" /\ fn.out = <<>>
    /\ Return(parse_risks(fn.args.text, fn.args.domains))
    /\ UNCHANGED <<g, runs, files, cli, objvars, ci>>

LibToJunit ==
    /\ fn.op = "to_junit" /\ fn.out = <<>>
    /\ Return(to_junit(fn.args.result))
    /\ UNCHANGED <<g, runs, files, cli, objvars, ci>>

InitLib ==
    /\ g = Gremlin(Catalog, 80, "ok")
    /\ runs = [t \in RunIds |-> IdleRun]
    /\ files = NoFiles
    /\ cli = NoCommand
    /\ NoObjects
    /\ fn \in LibCalls
    /\ ci = NoCi

NextLib == LibInferDomains \/ LibSelectPatterns \/ LibParseRisks \/ LibToJunit

SpecLib == InitLib /\ [][NextLib]_vars

(***************************************************************************)
(* Properties of the library functions (specification SpecLib).            *)
(***************************************************************************)
\* the function has been called and has returned
HasReturned(op) == fn.op = op /\ fn.out /= <<>>

\* the text has no markdown heading of level 2 or 3
NoSectionHeading(text) ==
    \A n \in 1..Len(text.lines) :
        ~(text.lines[n].k = "h" /\ text.lines[n].lvl \in {2, 3})

\* C12: the parser never raises on a string: it returns a list, and for a
\* text without a level-2 or level-3 heading the list is empty.
C12_ParserNeverRaises ==
    HasReturned("parse_risks") =>
        /\ ~fn.out[1].raised
        /\ fn.out[1].risks \in Seq(Elems(fn.out[1].risks))
        /\ NoSectionHeading(fn.args.text) => fn.out[1].risks = <<>>

\* the parser has returned on a text whose only headings, each over a
\* complete scenario and impact, are of level 1 and 4
C12_OtherLevelsParsed ==
    /\ HasReturned("parse_risks")
    /\ fn.args.text = RespDeep
    /\ NoSectionHeading(fn.args.text)
    /\ \E n \in 1..Len(fn.args.text.lines) : fn.args.text.lines[n].k = "h"
    /\ ~fn.out[1].raised

\* the first lines of the sections of a text, and the lines of a section
SectionStarts(text) ==
    { n \in 1..Len(text.lines) : text.lines[n].k = "h" /\ text.lines[n].lvl \in {2, 3} }

SectionLines(text, s) ==
    { n \in s..Len(text.lines) : \A m \in (s + 1)..n : m \notin SectionStarts(text) }

\* the section has a line that gives a scenario, and one that gives an impact
HasScenario(text, s) ==
    \E n \in SectionLines(text, s) :
        text.lines[n].k \in {"quote", "whatif"} /\ text.lines[n].txt /= ""

HasImpact(text, s) ==
    \E n \in SectionLines(text, s) : text.lines[n].k = "impact" /\ text.lines[n].txt /= ""

\* C13: every Risk the parser emits has a non-empty scenario and a non-empty
\* impact, both taken from the text; a section that lacks a scenario or an
\* impact contributes no risk, so there are at most as many risks as there
\* are sections having both.
C13_RisksAreComplete ==
    HasReturned("parse_risks") =>
        LET text == fn.args.text
            risks == fn.out[1].risks
        IN /\ \A k \in 1..Len(risks) :
                  /\ risks[k].scenario /= "" /\ risks[k].impact /= ""
                  /\ \E n \in 1..Len(text.lines) :
                         /\ text.lines[n].k \in {"quote", "whatif"}
                         /\ text.lines[n].txt = risks[k].scenario
                  /\ \E n \in 1..Len(text.lines) :
                         text.lines[n].k = "impact" /\ text.lines[n].txt = risks[k].impact
           /\ \A s \in SectionStarts(text) :
                  (~HasScenario(text, s) \/ ~HasImpact(text, s)) =>
                      ParseSection(SubSeq(text.lines, s, SectionEnd(text.lines, s)),
                                   fn.args.domains) = <<>>
           /\ Len(risks) <= Cardinality({ s \in SectionStarts(text) :
                                            HasScenario(text, s) /\ HasImpact(text, s) })

\* the parser has returned on a text with sections that lack a scenario or
\* an impact under a valid heading, and with one complete section
C13_PartialSectionsDropped ==
    /\ HasReturned("parse_risks")
    /\ \E s \in SectionStarts(fn.args.text) :
           /\ fn.args.text.lines[s].conf >= 0
           /\ ~HasScenario(fn.args.text, s)
    /\ \E s \in SectionStarts(fn.args.text) :
           /\ fn.args.text.lines[s].conf >= 0
           /\ ~HasImpact(fn.args.text, s)
    /\ Len(fn.out[1].risks) = 1

\* the text with the heading marker of the sections in sub changed from
\* level 2 to level 3 and from level 3 to level 2
FlipDepth(text, sub) ==
    [text EXCEPT !.lines = [n \in 1..Len(text.lines) |->
                               IF n \in sub THEN [text.lines[n] EXCEPT !.lvl = 5 - @]
                               ELSE text.lines[n]]]

\* the section has a heading "<word> (<n>%)", scenario lines and Impact
\* bullets, none of them empty
WellFormedSection(text, s) ==
    /\ text.lines[s].word /= "" /\ text.lines[s].conf >= 0
    /\ HasScenario(text, s) /\ HasImpact(text, s)
    /\ \A n \in SectionLines(text, s) :
           text.lines[n].k \in {"quote", "whatif", "impact"} => text.lines[n].txt /= ""

\* C16: heading depth is irrelevant to the parser: changing the marker of
\* any subset of the sections between level 2 and level 3 leaves the parsed
\* list unchanged, and a text of n well-formed sections gives n Risks.
C16_HeadingDepthIrrelevant ==
    HasReturned("parse_risks") =>
        LET text == fn.args.text
        IN /\ \A sub \in SUBSET SectionStarts(text) :
                  parse_risks(FlipDepth(text, sub), fn.args.domains) = fn.out[1]
           /\ (\A s \in SectionStarts(text) : WellFormedSection(text, s)) =>
                  Len(fn.out[1].risks) = Cardinality(SectionStarts(text))

\* the parser has returned three Risks on a text of three well-formed
\* sections, some of level 2 and some of level 3
C16_MixedDepthsParsed ==
    /\ HasReturned("parse_risks")
    /\ \E s, t \in SectionStarts(fn.args.text) :
           fn.args.text.lines[s].lvl = 2 /\ fn.args.text.lines[t].lvl = 3
    /\ \A s \in SectionStarts(fn.args.text) : WellFormedSection(fn.args.text, s)
    /\ Len(fn.out[1].risks) = 3

\* str.upper() on a scope
ScopeUpper(scope) ==
    [k \in 1..Len(scope) |->
        IF \E c \in DOMAIN LowerMap : LowerMap[c] = scope[k]
        THEN CHOOSE c \in DOMAIN LowerMap : LowerMap[c] = scope[k]
        ELSE scope[k]]

\* the domain has a keyword that occurs in the scope, letter case ignored
MatchesIgnoringCase(entry, scope) ==
    \E n \in 1..Len(entry.keywords.v) :
        IsSubstring(lower(entry.keywords.v[n]), lower(scope))

\* the names of the entries of a table
NamesOf(table) == [k \in 1..Len(table) |-> table[k].name]

\* C17: infer_domains(S, K) lists exactly the domains of K that have a
\* keyword occurring in S, compared case-insensitively, each once and in the
\* insertion order of K; hence infer_domains(S, K) = infer_domains(upper(S), K).
C17_InferDomainsIgnoresCase ==
    HasReturned("infer_domains") =>
        LET S == fn.args.scope
            K == fn.args.table
        IN /\ fn.out[1] = NamesOf(SelectSeq(K, LAMBDA e : MatchesIgnoringCase(e, S)))
           /\ fn.out[1] = infer_domains(ScopeUpper(S), K)

\* C18: select_patterns returns the universal entries of the catalog
\* unchanged, also for an empty list of matched domains, and the pattern
\* lists of exactly the matched domains that have an entry in the catalog,
\* each list as it is in the catalog; a matched domain without an entry is
\* skipped; the result is the same for every scope.
C18_SelectPatternsExact ==
    HasReturned("select_patterns") =>
        LET C == fn.args.catalog
            M == fn.args.matched
            out == fn.out[1]
        IN /\ DOMAIN out = {"universal", "domain"}
           /\ out.universal = C.universal
           /\ DOMAIN out.domain
                  = { m \in Elems(M) :
                        \E k \in 1..Len(C.domain_specific) : C.domain_specific[k].name = m }
           /\ \A k \in 1..Len(C.domain_specific) :
                  C.domain_specific[k].name \in Elems(M) =>
                      out.domain[C.domain_specific[k].name] = C.domain_specific[k].patterns
           /\ \A scope \in LibScopes : select_patterns(scope, C, M) = out

\* select_patterns has returned for a list that names a domain of the
\* catalog and a domain the catalog does not have
C18_UnknownDomainSkipped ==
    /\ HasReturned("select_patterns")
    /\ "search" \in Elems(fn.args.matched)
    /\ DOMAIN fn.out[1].domain = {"payments"}
    /\ fn.out[1].universal /= <<>>

\* the value of an attribute of an opening tag
Attr(part, key) ==
    part.attrs[CHOOSE k \in 1..Len(part.attrs) : part.attrs[k][1] = key][2]

\* the parts of a rendering that have one of the given tags, in their order
PartsTagged(xml, tags) == SelectSeq(xml, LAMBDA part : part.tag \in tags)

\* C20: to_junit reports tests = the number of risks and failures = the
\* number of risks of severity CRITICAL or HIGH; it renders one test case
\* per risk, in the order of the risks, with a failure element exactly for
\* the CRITICAL and HIGH risks and a system-out element for every other.
C20_JunitCounts ==
    HasReturned("to_junit") =>
        LET risks == fn.args.result.risks
            xml == fn.out[1]
            n == Len(risks)
            high == { i \in 1..n : risks[i].severity \in {"CRITICAL", "HIGH"} }
            suites == PartsTagged(xml, {"testsuite"})
            cases == PartsTagged(xml, {"testcase"})
            elements == PartsTagged(xml, {"failure", "system-out"})
        IN /\ Len(suites) = 1
           /\ Attr(suites[1], "tests") = n
           /\ Attr(suites[1], "failures") = Cardinality(high)
           /\ Len(cases) = n
           /\ Len(PartsTagged(xml, {"/testcase"})) = n
           /\ Len(elements) = n
           /\ \A i \in 1..n :
                  elements[i].tag = IF i \in high THEN "failure" ELSE "system-out"
           /\ \A p \in 1..Len(xml) :
                  xml[p].tag = "testcase" => xml[p + 1].tag \in {"failure", "system-out"}

\* to_junit has returned for a result of four risks, two of them CRITICAL or
\* HIGH
C20_FourRisksTwoFailures ==
    /\ HasReturned("to_junit")
    /\ Len(fn.args.result.risks) = 4
    /\ Attr(PartsTagged(fn.out[1], {"testsuite"})[1], "failures") = 2
    /\ Len(PartsTagged(fn.out[1], {"system-out"})) = 2


\* the lines of the section that starts at line s, and the risks the parser
\* has emitted for it
SectionOf(text, s) == SubSeq(text.lines, s, SectionEnd(text.lines, s))

Emitted(s) == ParseSection(SectionOf(fn.args.text, s), fn.args.domains)

\* the parser has returned, and these are the sections it emitted a Risk for
EmittingSections ==
    IF HasReturned("parse_risks")
    THEN { s \in SectionStarts(fn.args.text) :
             /\ Emitted(s) /= <<>>
             /\ \E k \in 1..Len(fn.out[1].risks) : fn.out[1].risks[k] = Emitted(s)[1] }
    ELSE {}

\* the first line of the section, after line s, of one of the kinds, or 0
FirstOfKind(text, s, kinds) ==
    LET ns == { n \in SectionLines(text, s) : text.lines[n].k \in kinds }
    IN IF ns = {} THEN 0 ELSE CHOOSE n \in ns : \A m \in ns : n <= m

\* C24: blockquotes have priority.  The scenario of an emitted Risk is the
\* text of the first blockquote line of its section whenever the section has
\* a blockquote line, also when a "what if" line comes before it, and the
\* text of the first "what if" line only when the section has no blockquote.
C24_BlockquoteHasPriority ==
    \A s \in EmittingSections :
        LET text == fn.args.text
            q == FirstOfKind(text, s, {"quote"})
            w == FirstOfKind(text, s, {"whatif"})
        IN Emitted(s)[1].scenario = IF q /= 0 THEN text.lines[q].txt ELSE text.lines[w].txt

\* C25: the title of an emitted Risk is the text of the first bold title line
\* among the first lines after the heading, and it is "" when there is none:
\* the label of an Impact or Domain bullet is never the title.
C25_TitleEmptyWithoutTitleLine ==
    \A s \in EmittingSections :
        LET text == fn.args.text
            bolds == { n \in SectionLines(text, s) :
                         /\ n - s + 1 \in 2..TITLE_SCAN_END
                         /\ text.lines[n].k = "bold" }
        IN /\ Emitted(s)[1].title \notin {"Impact:", "Domain:"}
           /\ bolds = {} => Emitted(s)[1].title = ""
           /\ bolds /= {} =>
                  Emitted(s)[1].title = text.lines[CHOOSE n \in bolds : \A m \in bolds : n <= m].txt

(***************************************************************************)
(* The parser with its lists as Python objects (specification SpecRisk).   *)
(*                                                                         *)
(* heap[MatchedAddr] is the list object given as the domains argument of   *)
(* _parse_risks (api.py:444: the matched_domains of the UnderstandingResult*)
(* itself); arts holds the emitted Risks, the domains field of each being  *)
(* the address of a list object; held.addrs holds the indices of the Risks *)
(* whose domains list the host has changed.                                *)
(***************************************************************************)
MatchedAddr == 1

\* a variant that hands out the list itself
copy_aliasing(h, addr) == [heap |-> h, addr |-> addr]

\* api.py:566  domains.copy(): a new list object with the same items
copy(h, addr) == [heap |-> Append(h, h[addr]), addr |-> Len(h) + 1]

\* api.py:556-566: the list object a Risk of the section holds: the list the
\* split of the Domain bullet builds (api.py:563), or the copy
risk_domains(h, sec, addr) ==
    LET n == FirstIndex([k \in 1..Len(sec) |-> sec[k].k = "domain"], 1, Len(sec))
    IN IF n /= 0 /\ sec[n].doms /= <<>>
       THEN [heap |-> Append(h, sec[n].doms), addr |-> Len(h) + 1]
       ELSE copy(h, addr)

\* api.py:503-579 over the sections from line s on: the heap and the Risks
RECURSIVE ParseFromObj(_, _, _, _)
ParseFromObj(h, lines, addr, s) ==
    IF s > Len(lines) THEN [heap |-> h, risks |-> <<>>]
    ELSE LET sec == SubSeq(lines, s, SectionEnd(lines, s))
         IN IF IsSectionStart(lines[s]) /\ ParseSection(sec, h[addr]) /= <<>>
            THEN LET d == risk_domains(h, sec, addr)
                     rest == ParseFromObj(d.heap, lines, addr, s + 1)
                 IN [heap |-> rest.heap,
                     risks |-> << [ParseSection(sec, h[addr])[1] EXCEPT !.domains = d.addr] >>
                               \o rest.risks]
            ELSE ParseFromObj(h, lines, addr, s + 1)

\* api.py:479-581  _parse_risks(response_text, domains) returns its Risks
ObjParseRisks ==
    /\ fn.op = "parse_risks" /\ fn.out = <<>>
    /\ LET res == ParseFromObj(heap, fn.args.text.lines, MatchedAddr, 1)
       IN /\ heap' = res.heap
          /\ arts' = res.risks
          /\ fn' = [fn EXCEPT !.out =
                       << [raised |-> FALSE,
                           risks |-> [k \in 1..Len(res.risks) |->
                                         [res.risks[k] EXCEPT !.domains = res.heap[@]]]] >>]
    /\ UNCHANGED <<g, runs, files, cli, held, ci>>

\* the host appends a name to the domains list of one Risk
ObjChangeRiskDomains ==
    /\ held.appends < MaxAppends
    /\ \E k \in 1..Len(arts) :
         /\ heap' = [heap EXCEPT ![arts[k].domains] = Append(@, "x")]
         /\ held' = [addrs |-> held.addrs \cup {k}, appends |-> held.appends + 1]
    /\ UNCHANGED <<g, runs, files, cli, arts, fn, ci>>

InitRisk ==
    /\ g = Gremlin(Catalog, 80, "ok")
    /\ runs = [t \in RunIds |-> IdleRun]
    /\ files = NoFiles
    /\ cli = NoCommand
    /\ \E m \in { <<>>, <<"payments">>, <<"auth", "payments">> }, x \in ParserTexts :
         /\ heap = << m >>
         /\ fn = Pending("parse_risks", [text |-> x, domains |-> m])
    /\ arts = <<>>
    /\ held = [addrs |-> {}, appends |-> 0]
    /\ ci = NoCi

NextRisk == ObjParseRisks \/ ObjChangeRiskDomains

SpecRisk == InitRisk /\ [][NextRisk]_vars

CI_ATTEMPTS == 3

\* gremlin_analyze.py:29  wait = 15 * attempt
CI_WAIT == 15

\* messages of the exceptions g.analyze may raise
MsgRollout == <<"[", "r", "o", "l", "l", "o", "u", "t", "]">>
Msg529 == <<"E", "r", "r", "o", "r", " ", "5", "2", "9">>
MsgOverloaded == <<"A", "P", "I", " ", "o", "v", "e", "r", "l", "o", "a", "d", "e", "d">>
MsgShouting == <<"O", "V", "E", "R", "L", "O", "A", "D", "E", "D">>

\* what a call of g.analyze does: it returns a result, or raises an
\* exception with a message.  The analyze of this repository raises the
\* error of its Rollout stage at every call; the other outcomes are those of
\* an analyze whose Rollout reaches the engine.
CiReturns == [kind |-> "result", msg |-> <<>>]
CiRaises(msg) == [kind |-> "raise", msg |-> msg]
CiOutcomes == { CiReturns, CiRaises(MsgRollout), CiRaises(Msg529), CiRaises(MsgOverloaded),
                CiRaises(MsgShouting) }

\* str.lower() on the letters of the messages
CiLowerMap == ("O" :> "o") @@ ("V" :> "v") @@ ("E" :> "e") @@ ("R" :> "r") @@ ("L" :> "l")
              @@ ("A" :> "a") @@ ("D" :> "d") @@ ("P" :> "p") @@ ("I" :> "i")

ci_lower(s) == [k \in 1..Len(s) |-> IF s[k] \in DOMAIN CiLowerMap THEN CiLowerMap[s[k]] ELSE s[k]]

\* a variant that takes every error for an overload
is_overload_for_any_error(msg) == TRUE

\* gremlin_analyze.py:43  "529" in str(e) or "overloaded" in str(e).lower()
is_overload(msg) ==
    \/ IsSubstring(<<"5", "2", "9">>, msg)
    \/ IsSubstring(<<"o", "v", "e", "r", "l", "o", "a", "d", "e", "d">>, ci_lower(msg))

\* gremlin_analyze.py:36  result.to_json(), and :53 the error report
CiResultJson(scope) == [kind |-> "result", scope |-> scope]
CiErrorReport(msg, scope) == [error |-> msg, risks |-> <<>>, scope |-> scope]

\* gremlin_analyze.py:11-24: the arguments are read, Gremlin() is constructed
CiConstruct ==
    /\ ci.pc = "start"
    /\ IF ci.construct = "raise"
       THEN ci' = [ci EXCEPT !.pc = "report", !.error = << MsgRollout >>]
       ELSE ci' = [ci EXCEPT !.pc = "loop"]
    /\ UNCHANGED <<g, runs, files, cli, objvars, fn>>

\* gremlin_analyze.py:26-48: one iteration of the loop, with what follows the
\* loop when the iteration is the last
CiAttempt ==
    /\ ci.pc = "loop"
    /\ Len(ci.tried) < CI_ATTEMPTS
    /\ LET attempt == Len(ci.tried)
           o == ci.outcomes[attempt + 1]
           waited == [ci EXCEPT !.slept = @ + (IF attempt > 0 THEN CI_WAIT * attempt ELSE 0),
                                !.tried = Append(@, o)]
       IN IF o.kind = "result"
          THEN ci' = [waited EXCEPT !.file = << CiResultJson(ci.scope) >>,
                                   !.exit = 0, !.pc = "exit"]
          ELSE IF is_overload(o.msg) /\ attempt + 1 < CI_ATTEMPTS
               THEN ci' = waited
               ELSE ci' = [waited EXCEPT !.pc = "report", !.error = << o.msg >>]
    /\ UNCHANGED <<g, runs, files, cli, objvars, fn>>

\* gremlin_analyze.py:50-54: the outer handler
CiReport ==
    /\ ci.pc = "report"
    /\ ci' = [ci EXCEPT !.file = << CiErrorReport(ci.error[1], ci.scope) >>,
                        !.exit = 1, !.pc = "exit"]
    /\ UNCHANGED <<g, runs, files, cli, objvars, fn>>

InitCi ==
    /\ g = Gremlin(Catalog, 80, "ok")
    /\ runs = [t \in RunIds |-> IdleRun]
    /\ files = NoFiles
    /\ cli = NoCommand
    /\ NoObjects
    /\ fn = NoApplication
    /\ \E scope \in { <<"x">>, <<"P", "a", "y">> },
          construct \in { "ok", "raise" }, outcomes \in [1..CI_ATTEMPTS -> CiOutcomes] :
         ci = [scope |-> scope, construct |-> construct,
               outcomes |-> outcomes, pc |-> "start", tried |-> <<>>, slept |-> 0,
               error |-> <<>>, file |-> <<>>, exit |-> -1]

NextCi == CiConstruct \/ CiAttempt \/ CiReport

SpecCi == InitCi /\ [][NextCi]_vars

\* the message names an overload
MentionsOverload(msg) ==
    \/ \E k \in 1..(Len(msg) - 2) : SubSeq(msg, k, k + 2) = <<"5", "2", "9">>
    \/ msg \in { MsgOverloaded, MsgShouting }

Alone(r) ==
    LET a == r.args[1]
    IN analyze(Gremlin(g.catalog, g.threshold, g.config),
               a.scope, a.context, a.depth, a.validate, a.script)

\* the two runs ended the same way: same artifacts, same exception, same
\* engine calls
SameOutcome(r, o) ==
    /\ r.pc = o.pc /\ r.arts = o.arts /\ r.exc = o.exc
    /\ r.trace = o.trace /\ r.calls = o.calls

AsyncEnded(t) ==
    /\ runs[t].pc /= "idle"
    /\ runs[t].mode = "analyze_async"
    /\ RunEnded(runs[t])

\* C21: a call of analyze_async that has ended has ended as analyze ends with
\* the same scope, context, depth, validate and engine responses, with the
\* same engine calls; on a well-formed catalog with a valid configuration and
\* an engine that answers, a call with validate=False has returned a result
\* after exactly 1 engine call.
C21_AsyncEqualsAnalyze ==
    \A t \in Threads :
        AsyncEnded(t) =>
            LET r == runs[t]
            IN /\ SameOutcome(r, Alone(r))
               /\ (/\ WellFormed(g.catalog) /\ g.config = "ok"
                   /\ r.args[1].script[1].kind = "text"
                   /\ ~r.args[1].validate)
                  => (r.pc = "done" /\ Len(r.calls) = 1)

\* the artifacts a run has built so far are made of its own arguments
OwnArtifacts(r) ==
    /\ r.arts["understanding"] /= <<>> =>
           LET u == r.arts["understanding"][1]
           IN /\ u.scope = r.args[1].scope
              /\ u.context = r.args[1].context
              /\ u.depth = r.args[1].depth
              /\ u.threshold = g.threshold
              /\ u.matched_domains
                     = infer_domains(r.args[1].scope, get_domain_keywords(g.catalog))
    /\ r.arts["ideation"] /= <<>> =>
           /\ r.arts["understanding"] /= <<>>
           /\ r.arts["ideation"][1].understanding = r.arts["understanding"][1]
    /\ r.arts["rollout"] /= <<>> =>
           /\ r.arts["ideation"] /= <<>>
           /\ r.arts["rollout"][1].ideation = r.arts["ideation"][1]
    /\ r.arts["judgment"] /= <<>> =>
           /\ r.arts["rollout"] /= <<>>
           /\ r.arts["judgment"][1].rollout = r.arts["rollout"][1]

=============================================================================
